---------------------------- MODULE Spec2Model ----------------------------
(***************************************************************************)
(* Model of src/clean_csv.py: a script that loads a CSV file, strips the   *)
(* phrase "Казки Лірника Сашка." (and one following space) from the        *)
(* column names that start with "count_in_" and from the values of the     *)
(* column first_story, and saves the result.                               *)
(*                                                                         *)
(* Text is a sequence of Unicode code points, so that the regular          *)
(* expression of clean_story_name is modelled character by character.      *)
(***************************************************************************)
EXTENDS Integers, Sequences, FiniteSets

VARIABLES
    pc,           \* the statement of the script that runs next
    csv_in,       \* the file public/lemma_summary.csv
    df,           \* the DataFrame df
    new_columns,  \* the dict new_columns
    csv_out,      \* the file public/lemma_summary_cleaned.csv
    stdout,       \* the lines printed
    exc,          \* the exception that ended the run, "none" while there is none
    text,         \* the original argument of the first call of clean_story_name
    arg,          \* the argument of the latest call of clean_story_name
    ret,          \* what the latest call of clean_story_name returned
    calls         \* how many calls of clean_story_name were made

vars == <<pc, csv_in, df, new_columns, csv_out, stdout, exc, text, arg, ret, calls>>
scriptVars == <<pc, csv_in, df, new_columns, csv_out, stdout, exc>>
callVars == <<text, arg, ret, calls>>

---------------------------------------------------------------------------
(* Bounds of the model. *)

\* the longest header of the input file, in columns
MaxCols == 2
\* the most data rows of the input file
MaxRows == 2
\* the longest argument of clean_story_name, in pieces of text (see Pieces)
MaxPieces == 4

---------------------------------------------------------------------------
(* Text constants of the script. *)

\* "Казки Лірника Сашка." : the literal part of the pattern of line 9
Phrase ==
    <<1050, 1072, 1079, 1082, 1080, 32, 1051, 1110, 1088, 1085, 1080, 1082,
      1072, 32, 1057, 1072, 1096, 1082, 1072, 46>>

\* " " : the character the pattern's " ?" matches
Space == <<32>>

\* "count_in_"
CountInPrefix == <<99, 111, 117, 110, 116, 95, 105, 110, 95>>

\* "first_story"
FirstStory == <<102, 105, 114, 115, 116, 95, 115, 116, 111, 114, 121>>

InputPath == "public/lemma_summary.csv"
OutputPath == "public/lemma_summary_cleaned.csv"

---------------------------------------------------------------------------
(* clean_story_name: re.sub(r'Казки Лірника Сашка\. ?', '', name). *)

\* whether the literal part of the pattern matches name at position i
MatchesAt(name, i) ==
    /\ i + Len(Phrase) - 1 <= Len(name)
    /\ SubSeq(name, i, i + Len(Phrase) - 1) = Phrase

\* mutant of MatchLen: the pattern with " *" for " ?" (every space is taken)
MatchLenAllSpaces(name, i) ==
    IF MatchesAt(name, i)
    THEN LET after == i + Len(Phrase)
             stop == CHOOSE k \in after..(Len(name) + 1) :
                        /\ \A m \in after..(k - 1) : name[m] = Space[1]
                        /\ (k <= Len(name) => name[k] # Space[1])
         IN  stop - i
    ELSE 0

\* the lower-case letter of a Cyrillic capital (U+0410..U+042F), else c
Fold(c) == IF c \in 1040..1071 THEN c + 32 ELSE c

\* mutant of MatchLen: the pattern compiled with re.IGNORECASE
MatchLenIgnoreCase(name, i) ==
    IF /\ i + Len(Phrase) - 1 <= Len(name)
       /\ \A k \in 1..Len(Phrase) : Fold(name[i + k - 1]) = Fold(Phrase[k])
    THEN Len(Phrase) +
         (IF i + Len(Phrase) <= Len(name) /\ name[i + Len(Phrase)] = Space[1]
          THEN 1 ELSE 0)
    ELSE 0

\* the length of the pattern's match at position i of name, 0 when it does
\* not match there: the phrase, then greedily zero or one space
MatchLen(name, i) ==
    IF MatchesAt(name, i)
    THEN Len(Phrase) +
         (IF i + Len(Phrase) <= Len(name) /\ name[i + Len(Phrase)] = Space[1]
          THEN 1 ELSE 0)
    ELSE 0

\* re.sub's scan: the positions of name, from i on, that no match covers.
\* A match is looked for at each position from left to right; after a match
\* the scan goes on behind it, so matches never overlap.
RECURSIVE KeptFrom(_, _)
KeptFrom(name, i) ==
    IF i > Len(name) THEN <<>>
    ELSE IF MatchLen(name, i) > 0 THEN KeptFrom(name, i + MatchLen(name, i))
    ELSE <<i>> \o KeptFrom(name, i + 1)

\* mutant of clean_story_name: re.sub(..., count=1), only the first match goes
RECURSIVE KeptFirstOnly(_, _, _)
KeptFirstOnly(name, i, done) ==
    IF i > Len(name) THEN <<>>
    ELSE IF ~done /\ MatchLen(name, i) > 0
         THEN KeptFirstOnly(name, i + MatchLen(name, i), TRUE)
    ELSE <<i>> \o KeptFirstOnly(name, i + 1, done)

clean_story_name_once(name) ==
    LET kept == KeptFirstOnly(name, 1, FALSE)
    IN  [j \in 1..Len(kept) |-> name[kept[j]]]

\* the replacement is '': the result is the text no match covers, in order
clean_story_name(name) ==
    LET kept == KeptFrom(name, 1)
    IN  [j \in 1..Len(kept) |-> name[kept[j]]]

---------------------------------------------------------------------------
(* The calls of clean_story_name on their own: the arguments are texts of  *)
(* at most MaxPieces pieces, and the function is applied to its own result *)
(* once more.                                                              *)

\* the pieces arguments are made of: "Казки ", "Лірника Сашка.", " ", "х",
\* and "казки " (the first piece in lower case)
Pieces ==
    { <<1050, 1072, 1079, 1082, 1080, 32>>,
      <<1051, 1110, 1088, 1085, 1080, 1082, 1072, 32, 1057, 1072, 1096, 1082, 1072, 46>>,
      <<32>>,
      <<1093>>,
      <<1082, 1072, 1079, 1082, 1080, 32>> }

RECURSIVE TextsOf(_)
TextsOf(n) ==
    IF n = 0 THEN { <<>> }
    ELSE LET shorter == TextsOf(n - 1)
         IN  shorter \cup { t \o p : t \in shorter, p \in Pieces }

Texts == TextsOf(MaxPieces)

NoFile == [state |-> "missing", header |-> <<>>, cols |-> <<>>]
NoDf == [columns |-> <<>>, data |-> <<>>]
EmptyDict == [c \in {} |-> c]

InitCalls ==
    /\ text \in Texts
    /\ arg = text
    /\ ret = <<>>
    /\ calls = 0
    /\ pc = "off"
    /\ csv_in = NoFile
    /\ df = NoDf
    /\ new_columns = EmptyDict
    /\ csv_out = NoFile
    /\ stdout = <<>>
    /\ exc = "none"

\* the first call: clean_story_name(text)
Call ==
    /\ pc = "off"
    /\ calls = 0
    /\ arg' = text
    /\ ret' = clean_story_name(text)
    /\ calls' = 1
    /\ UNCHANGED <<text, scriptVars>>

\* the function applied to what it returned
CallAgain ==
    /\ pc = "off"
    /\ calls = 1
    /\ arg' = ret
    /\ ret' = clean_story_name(ret)
    /\ calls' = 2
    /\ UNCHANGED <<text, scriptVars>>

NextCalls == Call \/ CallAgain

SpecCalls == InitCalls /\ [][NextCalls]_vars

---------------------------------------------------------------------------
(* The tables: a CSV file is a header and, per column, the texts of its    *)
(* fields from the first data row to the last; a DataFrame is its column   *)
(* labels and, per column, its cells.  A cell is a string, a number or     *)
(* missing (NaN).                                                          *)

Str(t) == [kind |-> "str", val |-> t]
Num(t) == [kind |-> "num", val |-> t]
NaN == [kind |-> "null", val |-> <<>>]

MalformedFile == [state |-> "malformed", header |-> <<>>, cols |-> <<>>]

\* the texts read_csv takes for an integer: digits only
IsNumeric(t) == Len(t) > 0 /\ \A k \in 1..Len(t) : t[k] \in 48..57

\* read_csv's cells of one column: an empty field is missing; the column is
\* numeric when every other field is a number, and else every other field is
\* a string, digits included
ReadColumn(texts) ==
    LET numeric == \A i \in 1..Len(texts) : texts[i] = <<>> \/ IsNumeric(texts[i])
    IN  [i \in 1..Len(texts) |->
            IF texts[i] = <<>> THEN NaN
            ELSE IF numeric THEN Num(texts[i])
            ELSE Str(texts[i])]

\* pd.read_csv of a well-formed file: the labels are the header's names
ReadCsv(file) ==
    [columns |-> file.header,
     data |-> [j \in 1..Len(file.cols) |-> ReadColumn(file.cols[j])]]

\* to_csv's fields of one column: a missing cell is an empty field, and a
\* number of a column with missing cells is a float, written with ".0"
WriteColumn(cells) ==
    LET float == \E i \in 1..Len(cells) : cells[i].kind = "null"
    IN  [i \in 1..Len(cells) |->
            IF cells[i].kind = "null" THEN <<>>
            ELSE IF cells[i].kind = "num" /\ float THEN cells[i].val \o <<46, 48>>
            ELSE cells[i].val]

\* df.to_csv(path, index=False): the labels as header, no index column
ToCsv(frame) ==
    [state |-> "ok",
     header |-> frame.columns,
     cols |-> [j \in 1..Len(frame.data) |-> WriteColumn(frame.data[j])]]

---------------------------------------------------------------------------
(* The statements of the script. *)

\* col.startswith(prefix)
StartsWith(col, prefix) ==
    /\ Len(col) >= Len(prefix)
    /\ SubSeq(col, 1, Len(prefix)) = prefix

\* mutant of NewColName: the new name is the cleaned name, without the prefix
NewColNameNoPrefix(col) ==
    clean_story_name(SubSeq(col, Len(CountInPrefix) + 1, Len(col)))

\* lines 15-17: the new name of a column that starts with "count_in_"
NewColName(col) ==
    LET original_name == SubSeq(col, Len(CountInPrefix) + 1, Len(col))
        cleaned_name == clean_story_name(original_name)
    IN  CountInPrefix \o cleaned_name

\* the labels of frame that start with "count_in_"
CountInLabels(frame) ==
    { frame.columns[i] : i \in { k \in 1..Len(frame.columns) :
                                   StartsWith(frame.columns[k], CountInPrefix) } }

\* mutant of BuiltNewColumns: every key gets the new name computed last (the
\* loop variable new_col_name used after the loop)
BuiltNewColumnsStale(frame) ==
    LET idx == { k \in 1..Len(frame.columns) : StartsWith(frame.columns[k], CountInPrefix) }
        lastk == CHOOSE k \in idx : \A m \in idx : m <= k
    IN  [col \in CountInLabels(frame) |-> NewColName(frame.columns[lastk])]

\* lines 12-18: the dict new_columns after the loop over df.columns
BuiltNewColumns(frame) ==
    [col \in CountInLabels(frame) |-> NewColName(col)]

\* mutant of RenameFrame: the frame rebuilt as a dict from new label to
\* column, where a label met again replaces the column of the same label
RenameFrameByLabel(frame, mapper) ==
    LET n == Len(frame.columns)
        label(i) == IF frame.columns[i] \in DOMAIN mapper
                    THEN mapper[frame.columns[i]] ELSE frame.columns[i]
        first == SelectSeq([i \in 1..n |-> i],
                           LAMBDA i : \A k \in 1..(i - 1) : label(k) # label(i))
        lastOf(i) == CHOOSE k \in 1..n :
                        /\ label(k) = label(i)
                        /\ \A m \in 1..n : label(m) = label(i) => m <= k
    IN  [columns |-> [j \in 1..Len(first) |-> label(first[j])],
         data |-> [j \in 1..Len(first) |-> frame.data[lastOf(first[j])]]]

\* df.rename(columns=mapper): each label that is a key of mapper is replaced
\* by its value, in place; the cells stay
RenameFrame(frame, mapper) ==
    [frame EXCEPT !.columns =
        [i \in 1..Len(frame.columns) |->
            IF frame.columns[i] \in DOMAIN mapper
            THEN mapper[frame.columns[i]]
            ELSE frame.columns[i]]]

\* 'first_story' in df.columns
HasFirstStory(frame) ==
    \E j \in 1..Len(frame.columns) : frame.columns[j] = FirstStory

\* re.sub raises TypeError for an argument that is no string: apply calls
\* clean_story_name on every cell of the column, missing ones included
ApplyRaises(frame) ==
    \E j \in 1..Len(frame.columns) :
        /\ frame.columns[j] = FirstStory
        /\ \E i \in 1..Len(frame.data[j]) : frame.data[j][i].kind # "str"

\* mutant of ApplyFirstStory: the strings of every column are cleaned
ApplyEveryColumn(frame) ==
    [frame EXCEPT !.data =
        [j \in 1..Len(frame.data) |->
            [i \in 1..Len(frame.data[j]) |->
                IF frame.data[j][i].kind = "str"
                THEN Str(clean_story_name(frame.data[j][i].val))
                ELSE frame.data[j][i]]]]

\* line 24, when no call raises: the column first_story replaced by the
\* results of clean_story_name on its cells
ApplyFirstStory(frame) ==
    [frame EXCEPT !.data =
        [j \in 1..Len(frame.data) |->
            IF frame.columns[j] = FirstStory
            THEN [i \in 1..Len(frame.data[j]) |->
                    Str(clean_story_name(frame.data[j][i].val))]
            ELSE frame.data[j]]]

\* line 5: df = pd.read_csv("public/lemma_summary.csv")
Load ==
    /\ pc = "read_csv"
    /\ \/ /\ csv_in.state = "missing"
          /\ exc' = "FileNotFoundError"
          /\ pc' = "failed"
          /\ df' = df
       \/ /\ csv_in.state = "malformed"
          /\ exc' = "ParserError"
          /\ pc' = "failed"
          /\ df' = df
       \/ /\ csv_in.state = "ok"
          /\ df' = ReadCsv(csv_in)
          /\ exc' = exc
          /\ pc' = "new_columns"
    /\ UNCHANGED <<csv_in, new_columns, csv_out, stdout, callVars>>

\* lines 12-18: new_columns = {} and the loop that fills it
BuildNewColumns ==
    /\ pc = "new_columns"
    /\ new_columns' = BuiltNewColumns(df)
    /\ pc' = "rename"
    /\ UNCHANGED <<csv_in, df, csv_out, stdout, exc, callVars>>

\* line 20: df = df.rename(columns=new_columns)
Rename ==
    /\ pc = "rename"
    /\ df' = RenameFrame(df, new_columns)
    /\ pc' = "first_story"
    /\ UNCHANGED <<csv_in, new_columns, csv_out, stdout, exc, callVars>>

\* lines 23-24: the column first_story, when there is one, is cleaned
CleanFirstStory ==
    /\ pc = "first_story"
    /\ IF ~HasFirstStory(df)
       THEN /\ pc' = "to_csv"
            /\ UNCHANGED <<df, exc>>
       ELSE IF ApplyRaises(df)
       THEN /\ exc' = "TypeError"
            /\ pc' = "failed"
            /\ df' = df
       ELSE /\ df' = ApplyFirstStory(df)
            /\ pc' = "to_csv"
            /\ exc' = exc
    /\ UNCHANGED <<csv_in, new_columns, csv_out, stdout, callVars>>

\* mutant of Save: an error of to_csv is swallowed and the script goes on
SaveSwallowed ==
    /\ pc = "to_csv"
    /\ \/ csv_out' = ToCsv(df)
       \/ csv_out' = csv_out
    /\ pc' = "print"
    /\ UNCHANGED <<csv_in, df, new_columns, stdout, exc, callVars>>

\* line 27: df.to_csv("public/lemma_summary_cleaned.csv", index=False); the
\* file is written, or the path is not writable and OSError ends the run
Save ==
    /\ pc = "to_csv"
    /\ \/ /\ csv_out' = ToCsv(df)
          /\ pc' = "print"
          /\ exc' = exc
       \/ /\ exc' = "OSError"
          /\ pc' = "failed"
          /\ csv_out' = csv_out
    /\ UNCHANGED <<csv_in, df, new_columns, stdout, callVars>>

\* line 28: print("... Saved cleaned CSV as public/lemma_summary_cleaned.csv")
Confirm ==
    /\ pc = "print"
    /\ stdout' = Append(stdout, [msg |-> "Saved cleaned CSV as", path |-> OutputPath])
    /\ pc' = "done"
    /\ UNCHANGED <<csv_in, df, new_columns, csv_out, exc, callVars>>

---------------------------------------------------------------------------
(* The input files of the model. *)

\* "lemma"
Lemma == <<108, 101, 109, 109, 97>>

\* the names of the headers: "lemma", "first_story",
\* "count_in_Казки Лірника Сашка. X", "count_in_X" and "count_in_Y"
HeaderNames ==
    { Lemma, FirstStory,
      CountInPrefix \o Phrase \o <<32, 88>>,
      CountInPrefix \o <<88>>,
      CountInPrefix \o <<89>> }

\* the fields: empty, "5" and "Казки Лірника Сашка. X"
FieldTexts == { <<>>, <<53>>, Phrase \o <<32, 88>> }

\* the headers of n pairwise distinct names (read_csv makes the labels of a
\* header distinct, so df.columns is always of this kind)
Headers(n) ==
    { h \in [1..n -> HeaderNames] : \A i, j \in 1..n : i # j => h[i] # h[j] }

\* a column of r fields that alternate between two texts
Alternating(pair, r) ==
    [i \in 1..r |-> IF i % 2 = 1 THEN pair[1] ELSE pair[2]]

\* the columns of r fields of the model
ColumnTexts(r) ==
    { Alternating(pair, r) : pair \in FieldTexts \X FieldTexts }

\* the file exists and is well formed, with 1..MaxCols columns and
\* 0..MaxRows data rows; or it is missing; or it is no CSV
InitFiles ==
    \/ csv_in = NoFile
    \/ csv_in = MalformedFile
    \/ \E n \in 1..MaxCols, r \in 0..MaxRows :
          \E h \in Headers(n), c \in [1..n -> ColumnTexts(r)] :
              csv_in = [state |-> "ok", header |-> h, cols |-> c]

Init ==
    /\ pc = "read_csv"
    /\ InitFiles
    /\ df = NoDf
    /\ new_columns = EmptyDict
    /\ csv_out = NoFile
    /\ stdout = <<>>
    /\ exc = "none"
    /\ text = <<>>
    /\ arg = <<>>
    /\ ret = <<>>
    /\ calls = 0

Next ==
    \/ Load
    \/ BuildNewColumns
    \/ Rename
    \/ CleanFirstStory
    \/ Save
    \/ Confirm

Spec == Init /\ [][Next]_vars

---------------------------------------------------------------------------
(* Properties of clean_story_name, checked under SpecCalls. *)

\* the positions of s where the phrase occurs
Occurrences(s) == { i \in 1..Len(s) : MatchesAt(s, i) }

\* the positions an occurrence at i takes with it: its own, and that of one
\* space directly behind it
DeletedWith(s, i) ==
    (i..(i + Len(Phrase) - 1)) \cup
    (IF i + Len(Phrase) <= Len(s) /\ s[i + Len(Phrase)] = 32
     THEN { i + Len(Phrase) } ELSE {})

Deleted(s) == UNION { DeletedWith(s, i) : i \in Occurrences(s) }

\* the positions of s outside every occurrence and its space, ascending
Remaining(s) ==
    SelectSeq([i \in 1..Len(s) |-> i], LAMBDA i : i \notin Deleted(s))

\* s without its occurrences, each with at most one space behind it
Reference(s) ==
    LET keep == Remaining(s)
    IN  [j \in 1..Len(keep) |-> s[keep[j]]]

\* the occurrence at position j of the result of cleaning s is made of text
\* that was not contiguous in s: it lies across a place where a match went
Joined(s, j) ==
    LET keep == Remaining(s)
        last == j + Len(Phrase) - 1
    IN  /\ last <= Len(keep)
        /\ keep[last] - keep[j] > Len(Phrase) - 1

\* C1 as stated: the result of clean_story_name never contains the phrase,
\* also when removing an occurrence joins the text on its two sides into one.
C1_NoPhraseLeft ==
    calls >= 1 => Occurrences(ret) = {}

\* C1 amended: no occurrence of the argument survives; every occurrence of
\* the phrase in the result lies across a place where a match was removed.
C1_OnlyJoinedPhraseLeft ==
    calls >= 1 => \A j \in Occurrences(ret) : Joined(arg, j)

\* an occurrence was removed, and the text on its two sides is joined into
\* an occurrence that the argument did not have at that place
C1_Witness ==
    /\ calls = 1
    /\ Cardinality(Occurrences(arg)) = 1
    /\ \E j \in Occurrences(ret) : Joined(arg, j)

\* C2 as stated: clean_story_name applied to its own result changes nothing.
C2_Idempotent ==
    calls = 2 => ret = arg

\* C2 amended: clean_story_name applied to its own result changes nothing
\* exactly when that result contains no occurrence of the phrase.
C2_IdempotentUnlessJoined ==
    calls = 2 => (ret = arg <=> Occurrences(arg) = {})

\* a second call on a cleaned text that changed nothing
C2_Witness ==
    /\ calls = 2
    /\ Occurrences(text) # {}
    /\ arg # text
    /\ ret = arg
    /\ ret # <<>>

\* C10: the result of clean_story_name is the argument without its
\* occurrences of the phrase, each taking at most one following space; a
\* second space and every other character stay, in order; an argument
\* without the phrase (a lower-case copy included) comes back unchanged.
C10_EqualsReference ==
    calls >= 1 =>
        /\ ret = Reference(arg)
        /\ (Occurrences(arg) = {} => ret = arg)

\* an occurrence followed by two spaces, of which the second one stays
C10_Witness ==
    /\ calls = 1
    /\ \E i \in Occurrences(arg) :
          /\ i + Len(Phrase) + 1 <= Len(arg)
          /\ arg[i + Len(Phrase)] = 32
          /\ arg[i + Len(Phrase) + 1] = 32
          /\ i + Len(Phrase) + 1 \in { KeptFrom(arg, 1)[j] : j \in 1..Len(ret) }
    /\ Len(ret) = Len(arg) - Len(Phrase) - 1

---------------------------------------------------------------------------
(* Properties of the script, checked under Spec. *)

\* the frame as read_csv built it
Loaded == ReadCsv(csv_in)

\* line 20 has run: the script is behind it, or ended behind it
Renamed ==
    \/ pc \in {"first_story", "to_csv", "print", "done"}
    \/ pc = "failed" /\ exc \in {"TypeError", "OSError"}

\* lines 23-24 have run without an error
Cleaned ==
    \/ pc \in {"to_csv", "print", "done"}
    \/ pc = "failed" /\ exc = "OSError"

\* to_csv has written the output file
Saved == csv_out.state = "ok"

\* the column of the input file that is named first_story, 0 when none is
FirstStoryAt ==
    IF \E j \in 1..Len(csv_in.header) : csv_in.header[j] = FirstStory
    THEN CHOOSE j \in 1..Len(csv_in.header) : csv_in.header[j] = FirstStory
    ELSE 0

\* the name the renaming is to give to the input name c
CleanedLabel(c) ==
    IF StartsWith(c, CountInPrefix)
    THEN CountInPrefix \o clean_story_name(SubSeq(c, Len(CountInPrefix) + 1, Len(c)))
    ELSE c

Distinct(names) ==
    \A i, j \in 1..Len(names) : i # j => names[i] # names[j]

\* C3 as stated: with missing cells in first_story (and strings in its other
\* cells) the cleaning raises no error, the missing cells stay missing and
\* every string v becomes clean_story_name(v).
C3_NullsPassThrough ==
    LET j == FirstStoryAt
    IN  ( /\ csv_in.state = "ok"
          /\ j # 0
          /\ \E i \in 1..Len(Loaded.data[j]) : Loaded.data[j][i].kind = "null"
          /\ \A i \in 1..Len(Loaded.data[j]) : Loaded.data[j][i].kind # "num" )
        => /\ exc # "TypeError"
           /\ Cleaned =>
                \A i \in 1..Len(Loaded.data[j]) :
                    df.data[j][i] =
                        IF Loaded.data[j][i].kind = "null" THEN NaN
                        ELSE Str(clean_story_name(Loaded.data[j][i].val))

\* C4 as stated: without a column first_story, or with one whose values are
\* no strings (numbers), the cleaning raises no error and the run goes on to
\* save and to print.
C4_ToleratedSilently ==
    LET j == FirstStoryAt
    IN  ( /\ csv_in.state = "ok"
          /\ \/ j = 0
             \/ /\ Len(Loaded.data[j]) > 0
                /\ \A i \in 1..Len(Loaded.data[j]) : Loaded.data[j][i].kind = "num" )
        => /\ exc # "TypeError"
           /\ (pc = "failed" => exc = "OSError")

\* C5: the saved file has as many columns and as many data rows as the input
\* file, also when two names were cleaned to the same name, and its rows are
\* in the input's order: row i of the output is made of row i of the input.
C5_CountsPreserved ==
    Saved =>
        /\ Len(csv_out.header) = Len(csv_in.header)
        /\ Len(csv_out.cols) = Len(csv_in.cols)
        /\ \A j \in 1..Len(csv_in.cols) :
              /\ Len(csv_out.cols[j]) = Len(csv_in.cols[j])
              /\ \A i \in 1..Len(csv_in.cols[j]) :
                    csv_out.cols[j][i] =
                        IF j = FirstStoryAt
                        THEN clean_story_name(csv_in.cols[j][i])
                        ELSE WriteColumn(Loaded.data[j])[i]

\* two columns were given the same name, and the file was saved with two
\* data rows
C5_Witness ==
    /\ Saved
    /\ Len(csv_in.header) = 2
    /\ Len(csv_in.cols[1]) = 2
    /\ csv_in.cols[1][1] # csv_in.cols[1][2]
    /\ csv_out.header[1] = csv_out.header[2]

\* C6: after the renaming the labels are, position by position, the input
\* names with the part behind "count_in_" cleaned, and the other names as
\* they were; the saved header is the same; a cleaned name still starts with
\* "count_in_".
C6_PositionWiseRename ==
    /\ Renamed =>
          /\ Len(df.columns) = Len(csv_in.header)
          /\ \A i \in 1..Len(csv_in.header) :
                /\ df.columns[i] = CleanedLabel(csv_in.header[i])
                /\ StartsWith(csv_in.header[i], CountInPrefix)
                      => StartsWith(df.columns[i], CountInPrefix)
    /\ Saved => csv_out.header = [i \in 1..Len(csv_in.header) |->
                                     CleanedLabel(csv_in.header[i])]

\* a name was changed by the renaming and another one was not
C6_Witness ==
    /\ Renamed
    /\ \E i, k \in 1..Len(df.columns) :
          /\ df.columns[i] # csv_in.header[i]
          /\ StartsWith(csv_in.header[k], CountInPrefix)
          /\ df.columns[k] = csv_in.header[k]

\* C7: the cells of every column but first_story are in every state those
\* that were loaded, and are saved as such; a column that is neither
\* first_story nor a count_in_ column keeps its name, too.
C7_Frame ==
    /\ df # NoDf =>
          \A j \in 1..Len(csv_in.header) :
              /\ j # FirstStoryAt => df.data[j] = Loaded.data[j]
              /\ ( /\ ~StartsWith(csv_in.header[j], CountInPrefix)
                   /\ csv_in.header[j] # FirstStory )
                    => df.columns[j] = csv_in.header[j]
    /\ Saved =>
          \A j \in 1..Len(csv_in.header) :
              /\ j # FirstStoryAt => csv_out.cols[j] = WriteColumn(Loaded.data[j])
              /\ ( /\ ~StartsWith(csv_in.header[j], CountInPrefix)
                   /\ csv_in.header[j] # FirstStory )
                    => csv_out.header[j] = csv_in.header[j]

\* a file was saved in which first_story was cleaned and a count_in_ column
\* still holds the phrase in a cell
C7_Witness ==
    /\ Saved
    /\ FirstStoryAt # 0
    /\ csv_out.cols[FirstStoryAt] # csv_in.cols[FirstStoryAt]
    /\ \E j \in 1..Len(csv_in.header) :
          /\ StartsWith(csv_in.header[j], CountInPrefix)
          /\ \E i \in 1..Len(csv_out.cols[j]) : Occurrences(csv_out.cols[j][i]) # {}

\* the place of a statement in the script
Rank(p) ==
    CASE p = "read_csv" -> 0
      [] p = "new_columns" -> 1
      [] p = "rename" -> 2
      [] p = "first_story" -> 3
      [] p = "to_csv" -> 4
      [] p = "print" -> 5
      [] p = "done" -> 6
      [] p = "failed" -> 7

\* C8: the statements run once each in the order load, rename, clean, save,
\* print; the line is printed once, behind a save that wrote the file; a
\* failing load, clean or save ends the run with nothing printed, and nothing
\* runs after the end.
C8_RunOrder ==
    [][ /\ pc \notin {"done", "failed"}
        /\ pc' = "failed" \/ Rank(pc') = Rank(pc) + 1
        /\ pc' = "failed" =>
              /\ pc \in {"read_csv", "first_story", "to_csv"}
              /\ exc' # "none"
              /\ stdout' = <<>>
              /\ csv_out' = NoFile
        /\ csv_out' # csv_out => pc = "to_csv" /\ pc' = "print"
        /\ pc' = "print" => csv_out'.state = "ok" /\ exc' = "none"
        /\ stdout' # stdout =>
              /\ pc = "print"
              /\ csv_out.state = "ok"
              /\ stdout = <<>>
              /\ Len(stdout') = 1
              /\ stdout'[1].path = OutputPath
        /\ pc' = "done" => Len(stdout') = 1
      ]_vars

\* the run ended with the file saved and the line printed
C8_Witness ==
    /\ pc = "done"
    /\ Saved
    /\ Len(stdout) = 1

\* C9 as stated: the labels are pairwise distinct in every state, in the
\* frame and in the saved header.
C9_NamesUnique ==
    /\ Distinct(df.columns)
    /\ Distinct(csv_out.header)

\* C9 amended: after the renaming two labels are equal only when both input
\* names start with "count_in_" and the parts behind it are cleaned to the
\* same text; every other pair of labels is distinct, in the frame and in
\* the saved header.
C9_EqualOnlyWhenCleanedEqual ==
    LET rest(c) == SubSeq(c, Len(CountInPrefix) + 1, Len(c))
        mayCollide(i, j) ==
            /\ StartsWith(csv_in.header[i], CountInPrefix)
            /\ StartsWith(csv_in.header[j], CountInPrefix)
            /\ clean_story_name(rest(csv_in.header[i]))
                 = clean_story_name(rest(csv_in.header[j]))
        only(names) ==
            \A i, j \in 1..Len(names) :
                (i # j /\ names[i] = names[j]) => mayCollide(i, j)
    IN  /\ df # NoDf => only(df.columns)
        /\ Saved => only(csv_out.header)

\* two names were cleaned to the same name, a third count_in_ name would not
\* have been
C9_Witness ==
    /\ Saved
    /\ ~Distinct(csv_out.header)
    /\ Distinct(csv_in.header)

===========================================================================
